---- MODULE Spec2Model ----
(***************************************************************************)
(* A model of the HLS proxy of src/main.py: the request handler proxy_hls, *)
(* the upstream fetch fetch_with_referer and the manifest rewriter         *)
(* rewrite_m3u8_content.                                                   *)
(*                                                                         *)
(* Text (URLs, playlists, header values) is a sequence of tokens.  A token *)
(* is a literal piece of text ("#EXTINF:", "http://", "/", "seg", the      *)
(* newline, the double quote) that the code's patterns and string tests    *)
(* never cut: every test of the code (startswith, endswith, split, the     *)
(* character classes of the five patterns) is made on whole tokens.        *)
(***************************************************************************)
EXTENDS Integers, Sequences, FiniteSets, TLC

VARIABLES
    pc,          \* the handler's position
    req,         \* the inbound request: url, referer, headers, own URL
    up,          \* the upstream resource: status, headers, body (chunks)
    outHeaders,  \* the headers fetch_with_referer sends upstream
    received,    \* the upstream chunks the HTTP client has read so far
    is_m3u8,     \* the classification made by proxy_hls
    raised,      \* status of the HTTPException raised inside fetch_with_referer
    resp,        \* the response delivered: status, headers, kind, body chunks
    rewrites     \* one record per call of rewrite_url

vars == <<pc, req, up, outHeaders, received, is_m3u8, raised, resp, rewrites>>

-----------------------------------------------------------------------------
(* Bounds of the model.                                                    *)

\* The playlists of the rewriter's input family hold at most this many blocks.
MaxBlocks == 2

-----------------------------------------------------------------------------
(* Text helpers.                                                           *)

NL == "\n"
QUOTE == "\""

\* Python's None, for an optional text value.
None == <<"<None>">>

\* F applied to the value of x, which is computed once, where x is used
\* many times.
With(x, F(_)) == CHOOSE r \in {F(v) : v \in {x}} : TRUE

Min(S) == CHOOSE m \in S : \A k \in S : m <= k
Max(S) == CHOOSE m \in S : \A k \in S : m >= k

\* The index of the last token of the longest run s[i..e] that holds no token
\* of stop (i - 1 when the run is empty).
RunEnd(s, i, stop) ==
    LET bad == {k \in i..Len(s) : s[k] \in stop}
    IN  IF bad = {} THEN Len(s) ELSE Min(bad) - 1

RECURSIVE Flatten(_)
Flatten(ss) == IF ss = <<>> THEN <<>> ELSE Head(ss) \o Flatten(Tail(ss))

\* s.split(sep): the pieces of s between the occurrences of the token sep.
RECURSIVE Split(_, _)
Split(s, sep) ==
    LET e == RunEnd(s, 1, {sep})
    IN  IF e = Len(s) THEN <<s>>
        ELSE <<SubSeq(s, 1, e)>> \o Split(SubSeq(s, e + 2, Len(s)), sep)

\* sep.join(parts)
RECURSIVE Join(_, _)
Join(parts, sep) ==
    IF parts = <<>> THEN <<>>
    ELSE IF Len(parts) = 1 THEN parts[1]
    ELSE parts[1] \o <<sep>> \o Join(Tail(parts), sep)

\* hay.replace(needle, repl): every occurrence, left to right, not overlapping.
RECURSIVE ReplaceAll(_, _, _)
ReplaceAll(hay, needle, repl) ==
    IF hay = <<>> \/ needle = <<>> THEN hay
    ELSE IF Len(needle) <= Len(hay) /\ SubSeq(hay, 1, Len(needle)) = needle
         THEN repl \o ReplaceAll(SubSeq(hay, Len(needle) + 1, Len(hay)), needle, repl)
         ELSE <<Head(hay)>> \o ReplaceAll(Tail(hay), needle, repl)

\* Number of occurrences of the token t in s.
Count(s, t) == Cardinality({k \in 1..Len(s) : s[k] = t})

\* Whether needle occurs in hay as a contiguous piece starting at i.
OccursAt(hay, needle, i) ==
    /\ i >= 1
    /\ i + Len(needle) - 1 <= Len(hay)
    /\ SubSeq(hay, i, i + Len(needle) - 1) = needle

-----------------------------------------------------------------------------
(* urllib.parse: urlparse and urljoin, on token sequences.                 *)

SchemeTokens == {"http://", "https://"}

HasScheme(u) == Len(u) > 0 /\ u[1] \in SchemeTokens

\* urlparse(u).scheme
UrlScheme(u) ==
    IF ~HasScheme(u) THEN "" ELSE IF u[1] = "http://" THEN "http" ELSE "https"

\* The text scheme + "://"
SchemeSep(scheme) ==
    IF scheme = "http" THEN "http://"
    ELSE IF scheme = "https" THEN "https://" ELSE "://"

\* urlparse(u).netloc: after the scheme's "//", up to the first "/" or "?"
UrlNetloc(u) ==
    IF HasScheme(u) THEN SubSeq(u, 2, RunEnd(u, 2, {"/", "?"})) ELSE <<>>

\* What follows scheme and netloc: path and query.
UrlRest(u) ==
    IF HasScheme(u) THEN SubSeq(u, RunEnd(u, 2, {"/", "?"}) + 1, Len(u)) ELSE u

\* urlparse(u).path
UrlPath(u) == LET r == UrlRest(u) IN SubSeq(r, 1, RunEnd(r, 1, {"?"}))

\* urlparse(u).query, with its leading "?" ( <<>> when there is none)
UrlQuery(u) == LET r == UrlRest(u) IN SubSeq(r, RunEnd(r, 1, {"?"}) + 1, Len(r))

\* urlunparse: scheme, netloc, path, query back to one text.
UrlUnparse(scheme, netloc, path, query) ==
    LET p == IF (netloc # <<>> \/ scheme # "") /\ path # <<>> /\ path[1] # "/"
             THEN <<"/">> \o path ELSE path
    IN  (IF scheme # "" THEN <<SchemeSep(scheme)>> ELSE <<>>) \o netloc \o p \o query

\* The loop of urljoin that resolves the "." and ".." segments.
RECURSIVE ResolveSegments(_, _)
ResolveSegments(segments, resolved) ==
    IF segments = <<>> THEN resolved
    ELSE LET seg == Head(segments)
         IN  IF seg = <<"..">>
             THEN ResolveSegments(Tail(segments),
                     IF resolved = <<>> THEN resolved
                     ELSE SubSeq(resolved, 1, Len(resolved) - 1))
             ELSE IF seg = <<".">>
             THEN ResolveSegments(Tail(segments), resolved)
             ELSE ResolveSegments(Tail(segments), Append(resolved, seg))

\* segments[1:-1] = filter(None, segments[1:-1])
FilterInner(segments) ==
    IF Len(segments) <= 2 THEN segments
    ELSE <<segments[1]>>
         \o SelectSeq(SubSeq(segments, 2, Len(segments) - 1), LAMBDA g : g # <<>>)
         \o <<segments[Len(segments)]>>

\* urljoin(base, url) for a url that has no scheme and no netloc.
urljoin(base, url) ==
    LET bscheme == UrlScheme(base)
        bnetloc == UrlNetloc(base)
        bpath   == UrlPath(base)
        path    == UrlPath(url)
        query   == UrlQuery(url)
    IN  IF base = <<>> THEN url
        ELSE IF url = <<>> THEN base
        ELSE IF path = <<>>
        THEN UrlUnparse(bscheme, bnetloc, bpath,
                        IF query = <<>> THEN UrlQuery(base) ELSE query)
        ELSE LET parts0     == Split(bpath, "/")
                 base_parts == IF parts0[Len(parts0)] # <<>>
                               THEN SubSeq(parts0, 1, Len(parts0) - 1) ELSE parts0
                 segments   == IF path[1] = "/" THEN Split(path, "/")
                               ELSE FilterInner(base_parts \o Split(path, "/"))
                 resolved0  == ResolveSegments(segments, <<>>)
                 resolved   == IF segments[Len(segments)] \in {<<".">>, <<"..">>}
                               THEN Append(resolved0, <<>>) ELSE resolved0
                 joined     == Join(resolved, "/")
             IN  UrlUnparse(bscheme, bnetloc,
                            IF joined = <<>> THEN <<"/">> ELSE joined, query)

-----------------------------------------------------------------------------
(* rewrite_m3u8_content                                                    *)

\* The tokens that begin with the character '#'.
HashTokens ==
    {"#EXT-X-STREAM-INF:", "#EXTINF:", "#EXT-X-MAP:", "#EXT-X-MEDIA:",
     "#EXT-X-I-FRAME-STREAM-INF:", "#EXTM3U", "#EXT-X-ENDLIST"}

NoMatch == [found |-> FALSE, start |-> 0, gs |-> 0, ge |-> 0, end |-> 0]

\* '<directive>[^\n]*\n([^\n#]+)' tried at position i.
MatchNextLine(s, i, directive) ==
    LET nls == {k \in (i + 1)..Len(s) : s[k] = NL}
    IN  IF s[i] # directive \/ nls = {} THEN NoMatch
        ELSE LET j  == Min(nls)
                 ge == RunEnd(s, j + 1, {NL} \cup HashTokens)
             IN  IF ge < j + 1 THEN NoMatch
                 ELSE [found |-> TRUE, start |-> i, gs |-> j + 1, ge |-> ge, end |-> ge]

\* 'URI="([^"]+)"' tried with URI= at position k.
UriAttrAt(s, k) ==
    /\ k + 1 <= Len(s)
    /\ s[k] = "URI="
    /\ s[k + 1] = QUOTE
    /\ LET ge == RunEnd(s, k + 2, {QUOTE}) IN ge >= k + 2 /\ ge + 1 <= Len(s)

\* '#EXT-X-MAP:URI="([^"]+)"' tried at position i.
MatchMap(s, i) ==
    IF s[i] = "#EXT-X-MAP:" /\ UriAttrAt(s, i + 1)
    THEN LET ge == RunEnd(s, i + 3, {QUOTE})
         IN  [found |-> TRUE, start |-> i, gs |-> i + 3, ge |-> ge, end |-> ge + 1]
    ELSE NoMatch

\* '<directive>.*URI="([^"]+)"' tried at position i: the greedy .* stays on the
\* line and gives the last URI=" of the line that has a closing quote.
MatchAttr(s, i, directive) ==
    LET eol == RunEnd(s, i + 1, {NL})
        ks  == {k \in (i + 1)..eol : UriAttrAt(s, k)}
    IN  IF s[i] # directive \/ ks = {} THEN NoMatch
        ELSE LET k  == Max(ks)
                 ge == RunEnd(s, k + 2, {QUOTE})
             IN  [found |-> TRUE, start |-> i, gs |-> k + 2, ge |-> ge, end |-> ge + 1]

\* The five patterns, in the order of the list.
NumPatterns == 5

Match(p, s, i) ==
    CASE p = 1 -> MatchNextLine(s, i, "#EXT-X-STREAM-INF:")
      [] p = 2 -> MatchNextLine(s, i, "#EXTINF:")
      [] p = 3 -> MatchMap(s, i)
      [] p = 4 -> MatchAttr(s, i, "#EXT-X-MEDIA:")
      [] p = 5 -> MatchAttr(s, i, "#EXT-X-I-FRAME-STREAM-INF:")

\* AbsoluteUrl with the base URL put in front of everything that is not
\* absolute (no branch for an absolute path, no resolution).
AbsoluteUrlConcat(url, base_url) ==
    IF url[1] \in SchemeTokens THEN url ELSE base_url \o url

\* The three branches of rewrite_url that make the absolute URL.
AbsoluteUrl(url, base_url) ==
    IF url[1] \in SchemeTokens THEN url
    ELSE IF url[1] = "/"
    THEN <<SchemeSep(UrlScheme(base_url))>> \o UrlNetloc(base_url) \o url
    ELSE urljoin(base_url, url)

\* if referer: (None and the empty text are both false)
Truthy(referer) == referer # None /\ referer # <<>>

\* ProxyUrl without the test "if referer:".
ProxyUrlAlwaysReferer(proxy_path, absolute_url, referer) ==
    proxy_path \o <<"?url=">> \o absolute_url \o <<"&referer=">> \o referer

\* f"{proxy_path}?url={absolute_url}", then "&referer=" when there is a referer.
ProxyUrl(proxy_path, absolute_url, referer) ==
    proxy_path \o <<"?url=">> \o absolute_url
        \o (IF Truthy(referer) THEN <<"&referer=">> \o referer ELSE <<>>)

\* match.group(0).replace(url, proxy_url)
ReplaceInMatch(group0, url, proxy_url) == ReplaceAll(group0, url, proxy_url)

\* rewrite_url(match), for a match whose group 1 is url and whose group 0 is
\* before + url + after: the replacement text, and the record of the call.
rewrite_url(before, url, after, pattern, base_url, proxy_path, referer) ==
    LET absolute_url == AbsoluteUrl(url, base_url)
        proxy_url    == ProxyUrl(proxy_path, absolute_url, referer)
        text         == ReplaceInMatch(before \o url \o after, url, proxy_url)
    IN  [text |-> text,
         call |-> [pattern |-> pattern, before |-> before, url |-> url,
                   after |-> after, absolute_url |-> absolute_url,
                   proxy_url |-> proxy_url, text |-> text]]

\* re.sub(pattern, rewrite_url, s) from position i on: the text it returns
\* (out) and the calls of rewrite_url it makes (log).  The scan finds the
\* leftmost match at or after i, replaces it, and goes on after its end.
RECURSIVE re_sub(_, _, _, _, _, _)
re_sub(p, s, i, base_url, proxy_path, referer) ==
    LET starts == {k \in i..Len(s) : Match(p, s, k).found}
    IN  IF starts = {} THEN [out |-> SubSeq(s, i, Len(s)), log |-> <<>>]
        ELSE With(Match(p, s, Min(starts)), LAMBDA m :
               With(rewrite_url(SubSeq(s, m.start, m.gs - 1), SubSeq(s, m.gs, m.ge),
                                SubSeq(s, m.ge + 1, m.end),
                                p, base_url, proxy_path, referer),
                    LAMBDA r :
                      With(re_sub(p, s, m.end + 1, base_url, proxy_path, referer),
                           LAMBDA rest :
                             [out |-> SubSeq(s, i, m.start - 1) \o r.text \o rest.out,
                              log |-> <<r.call>> \o rest.log])))

\* for pattern in patterns: result = re.sub(pattern, rewrite_url, result)
RECURSIVE ApplyPatterns(_, _, _, _, _)
ApplyPatterns(p, acc, base_url, proxy_path, referer) ==
    IF p > NumPatterns THEN acc
    ELSE With(re_sub(p, acc.out, 1, base_url, proxy_path, referer), LAMBDA r :
            ApplyPatterns(p + 1, [out |-> r.out, log |-> acc.log \o r.log],
                          base_url, proxy_path, referer))

rewrite_m3u8_content(content, base_url, proxy_path, referer) ==
    ApplyPatterns(1, [out |-> content, log |-> <<>>], base_url, proxy_path, referer)

-----------------------------------------------------------------------------
(* Header mappings: a dict is a function from its keys to their values.    *)

EmptyDict == [k \in {} |-> <<>>]

\* d[k] = v
Put(d, k, v) == [x \in DOMAIN d \cup {k} |-> IF x = k THEN v ELSE d[x]]

\* The dict with only the keys of keep.
Restrict(d, keep) == [x \in DOMAIN d \cap keep |-> d[x]]

\* str.lower(), on the header names and content types of the model.
Lower(t) ==
    CASE t = "Host" -> "host"
      [] t = "Connection" -> "connection"
      [] t = "Origin" -> "origin"
      [] t = "Referer" -> "referer"
      [] t = "Content-Length" -> "content-length"
      [] t = "Content-Type" -> "content-type"
      [] t = "Transfer-Encoding" -> "transfer-encoding"
      [] t = "User-Agent" -> "user-agent"
      [] t = "Accept" -> "accept"
      [] t = "Accept-Language" -> "accept-language"
      [] t = "Access-Control-Allow-Origin" -> "access-control-allow-origin"
      [] t = "Access-Control-Allow-Methods" -> "access-control-allow-methods"
      [] t = "Access-Control-Allow-Headers" -> "access-control-allow-headers"
      [] t = "Application/X-MpegURL" -> "application/x-mpegurl"
      [] OTHER -> t

-----------------------------------------------------------------------------
(* fetch_with_referer: the headers of the outbound request.                *)

UnsafeRequestHeaders == {"host", "connection", "content-length", "content-encoding"}

UserAgent == <<"Mozilla/5.0">>

\* headers.update({...}): the five common headers, Origin being None without
\* a referer.
CommonHeaders(h, referer) ==
    Put(Put(Put(Put(Put(h, "User-Agent", UserAgent),
                        "Accept", <<"*/*">>),
                    "Accept-Language", <<"en-US,en;q=0.9">>),
                "Origin", IF Truthy(referer) THEN UrlNetloc(referer) ELSE None),
            "Connection", <<"keep-alive">>)

BuildHeaders(original_headers, referer) ==
    LET copied == Restrict(original_headers,
                    {k \in DOMAIN original_headers :
                        Lower(k) \notin UnsafeRequestHeaders})
        withRef == IF Truthy(referer) THEN Put(copied, "Referer", referer) ELSE copied
        updated == CommonHeaders(withRef, referer)
    IN  Restrict(updated, {k \in DOMAIN updated : updated[k] # None})

-----------------------------------------------------------------------------
(* proxy_hls: classification, response headers, base URL.                  *)

\* response.headers.items(): the HTTP client gives every name in lower case.
HeaderItems(h) == {<<Lower(k), h[k]>> : k \in DOMAIN h}

\* response.headers.get(name, default): the lookup ignores the letter case.
HeaderGet(h, name, default) ==
    IF \E k \in DOMAIN h : Lower(k) = name
    THEN h[CHOOSE k \in DOMAIN h : Lower(k) = name]
    ELSE default

\* needle in text.lower()
ContainsLower(text, needle) == \E i \in 1..Len(text) : Lower(text[i]) = needle

\* url.endswith('.m3u8')
EndsWithM3u8(url) == Len(url) > 0 /\ url[Len(url)] = ".m3u8"

\* IsM3u8 with ".m3u8" looked for anywhere in the URL ('.m3u8' in url).
IsM3u8AnywhereInUrl(content_type, url) ==
    \/ ContainsLower(content_type, "application/vnd.apple.mpegurl")
    \/ ContainsLower(content_type, "application/x-mpegurl")
    \/ \E i \in 1..Len(url) : url[i] = ".m3u8"

IsM3u8(content_type, url) ==
    \/ ContainsLower(content_type, "application/vnd.apple.mpegurl")
    \/ ContainsLower(content_type, "application/x-mpegurl")
    \/ EndsWithM3u8(url)

DroppedResponseHeaders == {"transfer-encoding", "content-encoding", "content-length"}

\* The dict headers of proxy_hls: the upstream items that are kept, then the
\* three CORS keys.
ResponseHeaders(upstream) ==
    LET items == {it \in HeaderItems(upstream) :
                     Lower(it[1]) \notin DroppedResponseHeaders}
        kept  == [k \in {it[1] : it \in items} |->
                     (CHOOSE it \in items : it[1] = k)[2]]
    IN  Put(Put(Put(kept, "Access-Control-Allow-Origin", <<"*">>),
                "Access-Control-Allow-Methods", <<"GET, OPTIONS">>),
            "Access-Control-Allow-Headers", <<"*">>)

\* Response(headers=...) and StreamingResponse(headers=...): the framework
\* sends one header line per key of the dict, its name in lower case.
EmitHeaders(h) == {<<Lower(k), h[k]>> : k \in DOMAIN h}

\* url.rsplit('/', 1)[0] + '/' if '/' in url else url.  The scheme token ends
\* with the characters "//": a URL whose only '/' are those is cut after them.
BaseUrl(url) ==
    LET slashes == {k \in 1..Len(url) : url[k] = "/"}
    IN  IF slashes # {} THEN SubSeq(url, 1, Max(slashes))
        ELSE IF HasScheme(url) THEN <<url[1]>>
        ELSE url

\* str(request.url).split('?')[0]
ProxyPath(own) == Split(own, "?")[1]

-----------------------------------------------------------------------------
(* The handler proxy_hls, one request at a time.                           *)

NoResponse == [status |-> 0, kind |-> "none", headers |-> {}, body |-> <<>>]

\* The state after the framework has built the request, before the handler
\* runs.
Start(r, u) ==
    /\ pc = "RECEIVED"
    /\ req = r
    /\ up = u
    /\ outHeaders = EmptyDict
    /\ received = <<>>
    /\ is_m3u8 = FALSE
    /\ raised = 0
    /\ resp = NoResponse
    /\ rewrites = <<>>

\* proxy_hls calls fetch_with_referer, which builds the headers and sends
\* the request.
SendRequest ==
    /\ pc = "RECEIVED"
    /\ pc' = "FETCHING"
    /\ outHeaders' = BuildHeaders(req.headers, req.referer)
    /\ UNCHANGED <<req, up, received, is_m3u8, raised, resp, rewrites>>

\* await client.get(url, headers=headers): the client reads the body of the
\* response chunk by chunk, and returns once it has read all of it.
ReceiveChunk ==
    /\ pc = "FETCHING"
    /\ Len(received) < Len(up.body)
    /\ received' = Append(received, up.body[Len(received) + 1])
    /\ UNCHANGED <<pc, req, up, outHeaders, is_m3u8, raised, resp, rewrites>>

\* The exchange fails (refused, DNS, TLS, timeout): httpx.RequestError, for
\* which fetch_with_referer raises HTTPException(502) inside the try block of
\* proxy_hls, whose "except Exception" raises HTTPException(500) in its place.
FetchFail ==
    /\ pc = "FETCHING"
    /\ raised' = 502
    /\ resp' = [status |-> 500, kind |-> "error", headers |-> {}, body |-> <<>>]
    /\ pc' = "FAILED"
    /\ UNCHANGED <<req, up, outHeaders, received, is_m3u8, rewrites>>

FetchReturned == pc = "FETCHING" /\ Len(received) = Len(up.body)

ContentType(u) == HeaderGet(u.headers, "content-type", <<>>)

\* The playlist branch: response.text is rewritten and returned in one piece.
RespondPlaylist ==
    /\ FetchReturned
    /\ IsM3u8(ContentType(up), req.url)
    /\ \E r \in {rewrite_m3u8_content(Flatten(received), BaseUrl(req.url),
                                       ProxyPath(req.own), req.referer)} :
           /\ resp' = [status |-> up.status, kind |-> "buffered",
                       headers |-> EmitHeaders(ResponseHeaders(up.headers)),
                       body |-> <<r.out>>]
           /\ rewrites' = r.log
    /\ is_m3u8' = TRUE
    /\ pc' = "RESPONDED"
    /\ UNCHANGED <<req, up, outHeaders, received, raised>>

\* The segment branch: StreamingResponse(stream_response(), ...) is returned,
\* status and headers go out, the body follows.
StartStreaming ==
    /\ FetchReturned
    /\ ~IsM3u8(ContentType(up), req.url)
    /\ resp' = [status |-> up.status, kind |-> "stream",
                headers |-> EmitHeaders(ResponseHeaders(up.headers)),
                body |-> <<>>]
    /\ is_m3u8' = FALSE
    /\ pc' = "STREAMING"
    /\ UNCHANGED <<req, up, outHeaders, received, raised, rewrites>>

\* async for chunk in response.aiter_bytes(): yield chunk.  The body was read
\* by client.get: aiter_bytes() gives the content that is held, in one chunk.
StreamChunk ==
    /\ pc = "STREAMING"
    /\ resp.body = <<>>
    /\ Flatten(received) # <<>>
    /\ resp' = [resp EXCEPT !.body = <<Flatten(received)>>]
    /\ UNCHANGED <<pc, req, up, outHeaders, received, is_m3u8, raised, rewrites>>

StreamEnd ==
    /\ pc = "STREAMING"
    /\ resp.body # <<>> \/ Flatten(received) = <<>>
    /\ pc' = "RESPONDED"
    /\ UNCHANGED <<req, up, outHeaders, received, is_m3u8, raised, resp, rewrites>>

Next ==
    \/ SendRequest
    \/ ReceiveChunk
    \/ FetchFail
    \/ RespondPlaylist
    \/ StartStreaming
    \/ StreamChunk
    \/ StreamEnd

-----------------------------------------------------------------------------
(* The requests and upstream resources the model is run on.                *)

OwnUrl == <<"http://", "px", "/", "proxy", "?", "url=">>

UMaster    == <<"https://", "cdn", "/", "live", "/", "master", ".m3u8">>
UQuery     == <<"https://", "cdn", "/", "live", "/", "master", ".m3u8", "?", "t=1">>
USlashQ    == <<"https://", "cdn", "/", "live", "/", "master", ".m3u8", "?", "t=x", "/", "y">>
UNoPath    == <<"https://", "cdn">>
USegment   == <<"http://", "h", "/", "seg", ".ts">>

RefererSite == <<"https://", "site", "/", "page">>
Referers == {None, <<>>, RefererSite}

CTVnd  == <<"application/vnd.apple.mpegurl">>
CTX    == <<"Application/X-MpegURL", ";", "charset=utf-8">>
CTMp2t == <<"video/mp2t">>

\* A dict from a set of (key, value) pairs with distinct keys.
DictOf(pairs) == [k \in {p[1] : p \in pairs} |-> (CHOOSE p \in pairs : p[1] = k)[2]]

Request(url, referer, headers) ==
    [url |-> url, referer |-> referer, headers |-> headers, own |-> OwnUrl]

Upstream(status, headers, body) ==
    [status |-> status, headers |-> headers, body |-> body]

\* The blocks playlists are made of: the five directive shapes, with
\* relative, absolute-path and absolute URIs, and lines that are not rewritten.
Blocks ==
    { <<"#EXTM3U", NL>>,
      <<"#EXT-X-STREAM-INF:", "BW=1", NL, "v", ".m3u8", NL>>,
      <<"#EXTINF:", "10,", NL, "seg", NL>>,
      <<"#EXTINF:", "10,", "seg", NL, "seg", NL>>,
      <<"#EXTINF:", "10,", NL, "..", "/", "seg", NL>>,
      <<"#EXTINF:", "10,", NL, "seg", "?", "k=1", NL>>,
      <<"#EXTINF:", "10,", NL, "#EXT-X-ENDLIST", NL>>,
      <<"#EXT-X-MAP:", "URI=", QUOTE, "/", "init", QUOTE, NL>>,
      <<"#EXT-X-MEDIA:", "NAME=", QUOTE, "aud", QUOTE, ",", "URI=", QUOTE, "aud", QUOTE, NL>>,
      <<"#EXT-X-MEDIA:", "TYPE=AUDIO", ",", "URI=", QUOTE, "a", "/", "aud", QUOTE, NL>>,
      <<"#EXT-X-I-FRAME-STREAM-INF:", "BW=1", ",", "URI=", QUOTE,
        "https://", "cdn", "/", "i", QUOTE, NL>> }

RECURSIVE Playlists(_)
Playlists(n) ==
    IF n = 0 THEN {<<>>}
    ELSE LET shorter == Playlists(n - 1)
         IN  shorter \cup {p \o b : p \in shorter, b \in Blocks}

SegmentBody == << <<"x1">>, <<"#EXTINF:", "10,", NL, "seg", NL>>, <<"x3">> >>

\* Spec: how a request goes through the handler, for some URLs, content
\* types, statuses and bodies.
FlowBodies ==
    { <<>>,
      << <<"#EXTINF:", "10,", NL, "seg", NL>> >>,
      << <<"#EXTM3U", NL>>, <<"#EXTINF:", "10,", NL, "seg", NL>> >>,
      SegmentBody }

FlowUpstreamHeaders ==
    {EmptyDict} \cup {DictOf({<<"Content-Type", ct>>}) : ct \in {CTVnd, CTX, CTMp2t}}

Init ==
    \E url \in {UMaster, UQuery, USegment},
       status \in {200, 404},
       h \in FlowUpstreamHeaders,
       body \in FlowBodies :
        Start(Request(url, None, DictOf({<<"host", <<"px">> >>})),
              Upstream(status, h, body))

Spec == Init /\ [][Next]_vars

\* SpecRewrite: the rewriter on every playlist of at most MaxBlocks blocks.
RewriteStart(url, referer, p) ==
    Start(Request(url, referer, EmptyDict),
          Upstream(200, DictOf({<<"content-type", CTVnd>>}), <<p>>))

InitRewrite ==
    \/ \E url \in {UMaster, USlashQ}, referer \in Referers, p \in Playlists(MaxBlocks) :
           RewriteStart(url, referer, p)
    \/ \E referer \in Referers, p \in Playlists(MaxBlocks) :
           RewriteStart(UNoPath, referer, p)
    \/ \E referer \in Referers :
           Start(Request(USegment, referer, EmptyDict),
                 Upstream(200, DictOf({<<"content-type", CTMp2t>>}), SegmentBody))

SpecRewrite == InitRewrite /\ [][Next]_vars

\* SpecHeaders: the header policies on every set of inbound and of upstream
\* headers drawn from two pools.
InboundPool ==
    { <<"host", <<"px">> >>, <<"Connection", <<"close">> >>,
      <<"content-length", <<"0">> >>, <<"origin", <<"https://", "app">> >>,
      <<"range", <<"bytes=0-">> >> }

UpstreamPool ==
    { <<"Content-Length", <<"42">> >>, <<"Transfer-Encoding", <<"chunked">> >>,
      <<"content-encoding", <<"gzip">> >>, <<"cache-control", <<"no-cache">> >>,
      <<"Access-Control-Allow-Origin", <<"https://", "app">> >> }

InitHeaders ==
    \E inbound \in SUBSET InboundPool,
       upstream \in SUBSET UpstreamPool,
       referer \in Referers,
       kind \in {"playlist", "segment"} :
        Start(Request(IF kind = "playlist" THEN UMaster ELSE USegment,
                      referer, DictOf(inbound)),
              Upstream(200,
                       DictOf(upstream \cup
                              {<<"Content-Type",
                                 IF kind = "playlist" THEN CTVnd ELSE CTMp2t>>}),
                       << <<"#EXTINF:", "10,", NL, "seg", NL>> >>))

SpecHeaders == InitHeaders /\ [][Next]_vars
-----------------------------------------------------------------------------
(* Properties.                                                             *)

Delivered == pc \in {"STREAMING", "RESPONDED"}

RewrittenPlaylist == pc = "RESPONDED" /\ is_m3u8

IsPrefix(a, b) == Len(a) <= Len(b) /\ SubSeq(b, 1, Len(a)) = a

\* The tokens that end a URL in a playlist or in a proxied URL.
UrlEnd == {"&referer=", NL, QUOTE}

\* The URL that follows the "?url=" at position k of out.
UrlAfter(out, k) == SubSeq(out, k + 1, RunEnd(out, k + 1, UrlEnd))

\* C1: when the upstream fetch fails at the network layer, the response
\* delivered to the client has status 502.
C1_NetworkFailureGives502 ==
    pc = "FAILED" => resp.status = 502

\* C2: the proxied URLs found in the rewritten playlist are exactly the
\* absolute forms of the references the patterns matched, each once: none
\* added, none dropped, none rewritten twice.
C2_ProxiedUrlsAreTheReferences ==
    RewrittenPlaylist =>
        LET out   == resp.body[1]
            found == {k \in 1..Len(out) : out[k] = "?url="}
            refs  == DOMAIN rewrites
        IN  /\ Cardinality(found) = Cardinality(refs)
            /\ \A a \in {UrlAfter(out, k) : k \in found}
                        \cup {rewrites[j].absolute_url : j \in refs} :
                   Cardinality({k \in found : UrlAfter(out, k) = a})
                     = Cardinality({j \in refs : rewrites[j].absolute_url = a})

\* C3: in every match only the captured URI changes, every other character
\* of the matched span is kept, and the playlist keeps its number of lines.
C3_OnlyTheUriChanges ==
    /\ \A j \in DOMAIN rewrites :
          rewrites[j].text
            = rewrites[j].before \o rewrites[j].proxy_url \o rewrites[j].after
    /\ RewrittenPlaylist =>
          Count(resp.body[1], NL) = Count(Flatten(up.body), NL)

\* The path component of the URL ends with ".m3u8".
PathEndsWithM3u8(url) ==
    LET path == UrlPath(url) IN Len(path) > 0 /\ path[Len(path)] = ".m3u8"

\* C4: the body is treated as a playlist if and only if the content type
\* contains one of the two playlist types, in any letter case, or the path of
\* the request URL ends with .m3u8, query string or not.
C4_PlaylistIffTypeOrPath ==
    Delivered =>
        (is_m3u8 <=> \/ ContainsLower(ContentType(up), "application/vnd.apple.mpegurl")
                     \/ ContainsLower(ContentType(up), "application/x-mpegurl")
                     \/ PathEndsWithM3u8(req.url))

\* C5: on the segment branch, with a body of several chunks, the handler
\* does not hold the complete body before it emits the first chunk.
C5_FirstChunkBeforeBodyIsComplete ==
    (pc = "STREAMING" /\ Len(up.body) > 1 /\ resp.body = <<>>)
        => Len(received) < Len(up.body)

\* C6, as stated: a video/mp2t response is delivered byte for byte and never
\* rewritten, whatever the request URL is.
C6_Mp2tPassthroughAnyUrl ==
    (pc = "RESPONDED" /\ ContentType(up) = CTMp2t) =>
        /\ resp.kind = "stream"
        /\ Flatten(resp.body) = Flatten(up.body)
        /\ rewrites = <<>>

\* C6, amended: a video/mp2t response to a request whose URL does not end
\* with .m3u8 is delivered byte for byte, in order, and never rewritten.
C6_Mp2tPassthroughUnlessM3u8Url ==
    (Delivered /\ ContentType(up) = CTMp2t /\ ~EndsWithM3u8(req.url)) =>
        /\ resp.kind = "stream"
        /\ rewrites = <<>>
        /\ IsPrefix(Flatten(resp.body), Flatten(up.body))
        /\ pc = "RESPONDED" => Flatten(resp.body) = Flatten(up.body)

C6_Witness ==
    /\ pc = "RESPONDED"
    /\ ContentType(up) = CTMp2t
    /\ ~EndsWithM3u8(req.url)
    /\ Len(up.body) > 1
    /\ \E i \in 1..Len(up.body) : up.body[i][1] = "#EXTINF:"
    /\ resp.body # <<>>

CorsHeaders ==
    { <<"access-control-allow-origin", <<"*">> >>,
      <<"access-control-allow-methods", <<"GET, OPTIONS">> >>,
      <<"access-control-allow-headers", <<"*">> >> }

\* C7: the emitted headers are the upstream headers without
\* transfer-encoding, content-encoding and content-length, and each of the
\* three CORS headers has its one value, whatever upstream sent.
C7_HeadersFilteredCorsSingle ==
    Delivered =>
        /\ \A k \in DOMAIN up.headers :
              Lower(k) \notin DroppedResponseHeaders
                  => \E h \in resp.headers : h[1] = Lower(k)
        /\ \A k \in DOMAIN up.headers :
              (/\ Lower(k) \notin DroppedResponseHeaders
               /\ Lower(k) \notin {c[1] : c \in CorsHeaders})
                  => <<Lower(k), up.headers[k]>> \in resp.headers
        /\ \A h \in resp.headers : h[1] \notin DroppedResponseHeaders
        /\ \A c \in CorsHeaders :
              {h \in resp.headers : h[1] = c[1]} = {c}

\* C8: with a non-empty referer every rewritten URL of the output is
\* <proxy path>?url=<absolute URL>&referer=<referer> and ends there; with no
\* referer the rewriter adds no referer key.
C8_RefererPropagation ==
    RewrittenPlaylist =>
        LET out == resp.body[1]
            pp  == ProxyPath(req.own)
            ref == <<"&referer=">> \o req.referer
        IN  /\ \A j \in DOMAIN rewrites :
                  \E k \in 1..Len(out) : OccursAt(out, rewrites[j].proxy_url, k)
            /\ \A k \in 1..Len(out) :
                  out[k] = "?url=" =>
                      LET e == RunEnd(out, k + 1, UrlEnd)
                      IN  /\ OccursAt(out, pp, k - Len(pp))
                          /\ \E j \in DOMAIN rewrites :
                                UrlAfter(out, k) = rewrites[j].absolute_url
                          /\ Truthy(req.referer) =>
                                /\ OccursAt(out, ref, e + 1)
                                /\ e + Len(ref) < Len(out)
                                      => out[e + Len(ref) + 1] \in {NL, QUOTE}
            /\ ~Truthy(req.referer) => Count(out, "&referer=") = 0

C8_Witness ==
    /\ RewrittenPlaylist
    /\ Truthy(req.referer)
    /\ Len(rewrites) >= 2
    /\ Count(resp.body[1], "&referer=") >= 2

\* C9: the outbound headers carry Referer and Origin = scheme://host of the
\* referer when there is one, no Origin in any letter case when there is
\* none, and no inbound host, connection, content-length or content-encoding.
C9_OutboundHeaders ==
    pc # "RECEIVED" =>
        /\ Truthy(req.referer) =>
              /\ "Referer" \in DOMAIN outHeaders
              /\ outHeaders["Referer"] = req.referer
              /\ "Origin" \in DOMAIN outHeaders
              /\ outHeaders["Origin"]
                   = <<SchemeSep(UrlScheme(req.referer))>> \o UrlNetloc(req.referer)
        /\ ~Truthy(req.referer) =>
              \A k \in DOMAIN outHeaders : Lower(k) # "origin"
        /\ \A k \in DOMAIN req.headers :
              Lower(k) \in UnsafeRequestHeaders =>
                  (k \notin DOMAIN outHeaders \/ outHeaders[k] # req.headers[k])

\* The request URL cut after its last '/' (the whole URL when it has none).
CutAfterLastSlash(url) ==
    LET slashes == {k \in 1..Len(url) : url[k] = "/"}
    IN  IF slashes # {} THEN SubSeq(url, 1, Max(slashes))
        ELSE IF HasScheme(url) THEN <<url[1]>> ELSE url

\* A path with its "." and ".." segments resolved.
DotFree(path) == Join(ResolveSegments(Split(path, "/"), <<>>), "/")

\* A URL text with the dot segments of its path resolved.
DotFreeUrl(u) == UrlUnparse(UrlScheme(u), UrlNetloc(u), DotFree(UrlPath(u)), UrlQuery(u))

\* The directory of the path component of B: the path up to its last '/'.
PathDirectory(B) ==
    LET path    == UrlPath(B)
        slashes == {k \in 1..Len(path) : path[k] = "/"}
    IN  IF slashes = {} THEN <<>> ELSE SubSeq(path, 1, Max(slashes))

IsRelative(u) == u[1] \notin SchemeTokens /\ u[1] # "/"

\* The first two cases of C10: an absolute URI is kept, an absolute path is
\* put after the scheme and host of B.
C10_AbsoluteCases(u, B, a) ==
    /\ u[1] \in SchemeTokens => a = u
    /\ u[1] = "/" => a = <<SchemeSep(UrlScheme(B))>> \o UrlNetloc(B) \o u

====
